---- MODULE Spec2Model ----
(***************************************************************************)
(* The UNO deck of uno/engine/deck.py as a state machine.                  *)
(*                                                                         *)
(* A Deck object holds one field, _cards, a reference to a deque object.   *)
(* The model keeps the references (cards) apart from the deque objects     *)
(* (heap), so that two decks sharing one deque would be visible; the list  *)
(* a DeckBuilder queues cards in is an object of the same heap.  Every     *)
(* public operation is one action; it records its arguments, its result    *)
(* and the contents of every deck before the call in the variable last.    *)
(* A client that runs a fixed sequence of calls keeps all of them in trace.*)
(***************************************************************************)
EXTENDS Integers, Sequences, FiniteSets, TLC

VARIABLES
    cards,   \* cards[d]: the deque object the deck named d holds in self._cards
    heap,    \* heap[r]: the contents of deque object r, top (left) first
    last,    \* the last call: operation, arguments, result, failure, decks before
    trace,   \* the calls of a client that keeps them (on), oldest first
    builders, \* builders[b]: the fields of the DeckBuilder named b
    hand     \* the cards of a client that holds what it draws (on)

vars == <<cards, heap, last, trace, builders, hand>>

(***************************************************************************)
(* Bounds of the model.                                                    *)
(***************************************************************************)
\* longest deck the small-deck specifications build
MaxLen == 3
\* longest list passed to add_cards / add_cards_to_top
MaxArg == 3
\* deque objects that can be live at once
NumRefs == 4
\* longest deck handed to merge_decks
MaxPart == 2

\* the names decks are bound to; DOMAIN cards holds those bound to a Deck
DeckIds == {"a", "b", "m"}
Refs == 1..NumRefs

(***************************************************************************)
(* Cards.  card.py is not part of the sources at hand: a card is modelled  *)
(* as the value the deck reads, a colour name and a label name.            *)
(***************************************************************************)
Card(color, label) == [color |-> color, label |-> label]

\* Python's None, returned by draw_one on an empty deck: no card equals it
None == [color |-> "None", label |-> "None"]

_COLORS == <<"RED", "BLUE", "GREEN", "YELLOW">>
_ACTIONS == <<"SKIP", "REVERSE", "DRAW_TWO">>
_WILDS == <<"WILD", "WILD_DRAW_FOUR">>
_NUMBERS == <<"ZERO", "ONE", "TWO", "THREE", "FOUR", "FIVE", "SIX", "SEVEN",
             "EIGHT", "NINE">>

\* the colour of a wild card: the wild sentinel of the colour enumeration
WildColor == "WILD"
CardColor == {_COLORS[i] : i \in DOMAIN _COLORS} \cup {WildColor}
CardLabel == {_NUMBERS[i] : i \in DOMAIN _NUMBERS}
                 \cup {_ACTIONS[i] : i \in DOMAIN _ACTIONS}
                 \cup {_WILDS[i] : i \in DOMAIN _WILDS}

create_number_card(color, number) == Card(color, _NUMBERS[number + 1])
create_action_card(color, action) == Card(color, action)
create_wild_card(wild_type) == Card(WildColor, wild_type)

is_number_card(c) == c.label \in {_NUMBERS[i] : i \in DOMAIN _NUMBERS}
is_action_card(c) == c.label \in {_ACTIONS[i] : i \in DOMAIN _ACTIONS}
is_wild(c) == c.label \in {_WILDS[i] : i \in DOMAIN _WILDS}

\* the cards the small-deck specifications deal with: one of each kind
Pool == {create_number_card("RED", 5), create_action_card("BLUE", "SKIP"),
         create_wild_card("WILD")}

\* every list of at most n cards of the pool
Lists(n) == UNION {[1..k -> Pool] : k \in 0..n}

(***************************************************************************)
(* Python sequences.                                                       *)
(***************************************************************************)
Min(x, y) == IF x < y THEN x ELSE y
Max(x, y) == IF x < y THEN y ELSE x

\* reversed(xs)
reversed(xs) == [i \in 1..Len(xs) |-> xs[Len(xs) + 1 - i]]

\* a slice that takes the last count elements, xs[-count:]
SliceFromEnd(xs, count) ==
    IF count <= 0 THEN xs
    ELSE SubSeq(xs, Max(Len(xs) - count, 0) + 1, Len(xs))

\* xs[:count], with Python's rule for a negative or too large bound
SliceTo(xs, count) ==
    IF count >= 0 THEN SubSeq(xs, 1, Min(count, Len(xs)))
    ELSE SubSeq(xs, 1, Max(Len(xs) + count, 0))

\* deque.append, deque.appendleft
append(q, card) == Append(q, card)
appendleft(q, card) == <<card>> \o q

\* deque.extend(xs): the elements of xs appended at the right, first to last
extend(q, xs) == q \o xs

\* a popleft that takes the rightmost element (deque.pop)
popleft_from_right(q) ==
    IF q = <<>> THEN [err |-> "IndexError", item |-> None, q |-> q]
    ELSE [err |-> "ok", item |-> q[Len(q)], q |-> SubSeq(q, 1, Len(q) - 1)]

\* deque.popleft(): the leftmost element and the rest, IndexError when empty
popleft(q) ==
    IF q = <<>> THEN [err |-> "IndexError", item |-> None, q |-> q]
    ELSE [err |-> "ok", item |-> Head(q), q |-> Tail(q)]

\* concatenation of a list of lists, in order
RECURSIVE Concat(_)
Concat(xss) == IF xss = <<>> THEN <<>> ELSE Head(xss) \o Concat(Tail(xss))

(***************************************************************************)
(* The heap of deque objects.                                              *)
(***************************************************************************)
Live(cs) == {cs[d] : d \in DOMAIN cs}

\* the lists the builders hold in self._custom_cards
Queues == {builders[b].custom_cards : b \in DOMAIN builders}

\* deque() or []: a new object, none of those the decks and builders hold
NewRef ==
    CHOOSE r \in Refs \ (Live(cards) \cup Queues) :
        \A s \in Refs \ (Live(cards) \cup Queues) : r <= s

\* the heap h once the objects no deck of cs and no builder holds are reclaimed
Collect(h, cs) ==
    [r \in Refs |-> IF r \in Live(cs) \cup Queues THEN h[r] ELSE <<>>]

\* top-to-bottom contents of deck d
Contents(d) == heap[cards[d]]

\* the contents of every deck, <<>> for a name bound to none
Snapshot == [d \in DeckIds |-> IF d \in DOMAIN cards THEN Contents(d) ELSE <<>>]

\* is_empty(), size(), __len__ of a deck holding q
is_empty(q) == Len(q) = 0
size(q) == Len(q)

(***************************************************************************)
(* Deck._initialize_standard_deck: the list cards_to_add, then extend.     *)
(***************************************************************************)
\* number cards with the zero doubled like the other numbers
NumberCardsTwoZeros(color) ==
    Concat([number \in 1..10 |->
               <<create_number_card(color, number - 1),
                 create_number_card(color, number - 1)>>])

\* one zero, then two of each number 1-9, of one colour
NumberCards(color) ==
    <<create_number_card(color, 0)>>
        \o Concat([number \in 1..9 |->
                     <<create_number_card(color, number),
                       create_number_card(color, number)>>])

\* one of each action of one colour
ActionCardsOnce(color) ==
    [a \in DOMAIN _ACTIONS |-> create_action_card(color, _ACTIONS[a])]

\* two of each action of one colour
ActionCards(color) ==
    Concat([a \in DOMAIN _ACTIONS |->
               <<create_action_card(color, _ACTIONS[a]),
                 create_action_card(color, _ACTIONS[a])>>])

\* four of one wild type
WildCards(wild_type) == [k \in 1..4 |-> create_wild_card(wild_type)]

cards_to_add ==
    Concat([c \in DOMAIN _COLORS |-> NumberCards(_COLORS[c])])
        \o Concat([c \in DOMAIN _COLORS |-> ActionCards(_COLORS[c])])
        \o Concat([w \in DOMAIN _WILDS |-> WildCards(_WILDS[w])])

initialize_standard_deck == extend(<<>>, cards_to_add)

\* Deck.__init__: the contents of the new deque
new_deck(initialize) == IF initialize THEN initialize_standard_deck ELSE <<>>

(***************************************************************************)
(* Deck.get_card_distribution: one pass over the deque.                    *)
(***************************************************************************)
NoDist ==
    [total |-> 0, number_cards |-> 0, action_cards |-> 0, wild_cards |-> 0,
     by_color |-> [color \in CardColor |-> 0],
     by_label |-> [label \in CardLabel |-> 0]]

\* the if / elif / elif of the loop body
counts_as_number(card) == is_number_card(card)
counts_as_action(card) == ~is_number_card(card) /\ is_action_card(card)
counts_as_wild(card) ==
    ~is_number_card(card) /\ ~is_action_card(card) /\ is_wild(card)

\* a distribution that counts no wild card under its colour
get_card_distribution_plain_colors(q) ==
    [total |-> size(q),
     number_cards |-> Cardinality({i \in DOMAIN q : counts_as_number(q[i])}),
     action_cards |-> Cardinality({i \in DOMAIN q : counts_as_action(q[i])}),
     wild_cards |-> Cardinality({i \in DOMAIN q : counts_as_wild(q[i])}),
     by_color |-> [color \in CardColor |->
                      IF color = WildColor THEN 0
                      ELSE Cardinality({i \in DOMAIN q : q[i].color = color})],
     by_label |-> [label \in CardLabel |->
                      Cardinality({i \in DOMAIN q : q[i].label = label})]]

\* for card in self._cards: every counter ends at the number of cards the
\* loop body raises it for
get_card_distribution(q) ==
    [total |-> size(q),
     number_cards |-> Cardinality({i \in DOMAIN q : counts_as_number(q[i])}),
     action_cards |-> Cardinality({i \in DOMAIN q : counts_as_action(q[i])}),
     wild_cards |-> Cardinality({i \in DOMAIN q : counts_as_wild(q[i])}),
     by_color |-> [color \in CardColor |->
                      Cardinality({i \in DOMAIN q : q[i].color = color})],
     by_label |-> [label \in CardLabel |->
                      Cardinality({i \in DOMAIN q : q[i].label = label})]]

(***************************************************************************)
(* The methods of Deck as functions of the deque's contents q.  Each gives *)
(* the contents after the call (q), the value returned (ret, a list, or    *)
(* item, a card or None) and the failure raised (err, "ok" for none).      *)
(***************************************************************************)
Result(q, ret, item, err) == [q |-> q, ret |-> ret, item |-> item, err |-> err]

\* range checks of draw that miss the check against the deck size
draw_rejects_negative_only(count, n) == count < 0

\* the two range checks of draw
draw_rejects(count, n) == count < 0 \/ count > n

\* a draw that returns the top cards and leaves them on the deck
draw_copying(q, count) ==
    IF draw_rejects(count, Len(q)) THEN Result(q, <<>>, None, "ValueError")
    ELSE Result(q, SliceTo(q, count), None, "ok")

\* [self._cards.popleft() for _ in range(count)]: a failing popleft ends the
\* comprehension with the cards popped so far gone and nothing returned
RECURSIVE popleft_each(_, _, _)
popleft_each(q, k, out) ==
    IF k <= 0 THEN Result(q, out, None, "ok")
    ELSE LET p == popleft(q)
         IN  IF p.err # "ok" THEN Result(p.q, <<>>, None, p.err)
             ELSE popleft_each(p.q, k - 1, Append(out, p.item))

draw(q, count) ==
    IF draw_rejects(count, Len(q)) THEN Result(q, <<>>, None, "ValueError")
    ELSE popleft_each(q, count, <<>>)

\* a draw_one that pops without asking is_empty first
\* a draw_one that fails on an empty deck as draw(1) does
draw_one_raising(q) ==
    IF is_empty(q) THEN Result(q, <<>>, None, "ValueError")
    ELSE LET p == popleft(q) IN Result(p.q, <<>>, p.item, p.err)

draw_one_unchecked(q) ==
    LET p == popleft(q) IN Result(p.q, <<>>, p.item, p.err)

draw_one(q) ==
    IF is_empty(q) THEN Result(q, <<>>, None, "ok")
    ELSE LET p == popleft(q) IN Result(p.q, <<>>, p.item, p.err)

add_card(q, card) == append(q, card)
add_cards(q, xs) == extend(q, xs)
\* an add_to_top that puts the card where add_card puts it
add_to_top_at_bottom(q, card) == append(q, card)

add_to_top(q, card) == appendleft(q, card)

\* for card in reversed(cards): self._cards.appendleft(card)
RECURSIVE appendleft_each(_, _)
appendleft_each(q, xs) ==
    IF xs = <<>> THEN q ELSE appendleft_each(appendleft(q, Head(xs)), Tail(xs))

\* an add_cards_to_top that walks the list front to back
add_cards_to_top_unreversed(q, xs) == appendleft_each(q, xs)

add_cards_to_top(q, xs) == appendleft_each(q, reversed(xs))

\* the two range checks of peek
peek_rejects(count, n) == count < 0 \/ count > n

\* a peek that takes the cards off the deck, as draw does
peek_removing(q, count) == draw(q, count)

peek(q, count) ==
    IF peek_rejects(count, Len(q)) THEN Result(q, <<>>, None, "ValueError")
    ELSE Result(q, SliceTo(q, count), None, "ok")

clear(q) == <<>>

\* deque.pop(): the rightmost element and the rest
pop(q) == [item |-> q[Len(q)], q |-> SubSeq(q, 1, Len(q) - 1)]

\* a rotation that turns the same way whatever the sign of positions
RECURSIVE rotate_one_way(_, _)
rotate_one_way(q, positions) ==
    IF q = <<>> \/ positions = 0 THEN q
    ELSE IF positions > 0
         THEN rotate_one_way(appendleft(pop(q).q, pop(q).item), positions - 1)
         ELSE rotate_one_way(appendleft(pop(q).q, pop(q).item), positions + 1)

\* deque.rotate(positions): positions steps to the right, one step being
\* appendleft(pop()); to the left, one step being append(popleft()), when
\* positions is negative; nothing on an empty deque
\* a rotation that turns left for a positive amount and right for a negative
RECURSIVE rotate_leftwards(_, _)
rotate_leftwards(q, positions) ==
    IF q = <<>> \/ positions = 0 THEN q
    ELSE IF positions > 0
         THEN rotate_leftwards(append(popleft(q).q, popleft(q).item), positions - 1)
         ELSE rotate_leftwards(appendleft(pop(q).q, pop(q).item), positions + 1)

RECURSIVE rotate(_, _)
rotate(q, positions) ==
    IF q = <<>> \/ positions = 0 THEN q
    ELSE IF positions > 0
         THEN rotate(appendleft(pop(q).q, pop(q).item), positions - 1)
         ELSE rotate(append(popleft(q).q, popleft(q).item), positions + 1)

\* a shuffle that fills every place with a card picked from the whole list
random_shuffle_with_repeats(xs) ==
    {[i \in 1..Len(xs) |-> xs[f[i]]] : f \in [1..Len(xs) -> 1..Len(xs)]}

\* random.shuffle(cards_list): the orders it can leave the list in
random_shuffle(xs) ==
    LET n == Len(xs)
        Orders == {f \in [1..n -> 1..n] : \A i, j \in 1..n : f[i] = f[j] => i = j}
    IN  {[i \in 1..n |-> xs[f[i]]] : f \in Orders}

\* a merge that adds the second deck's cards to the first deck and returns it
merge_decks_into_first(h, cs, x, y) ==
    [ref |-> cs[x], heap |-> [h EXCEPT ![cs[x]] = add_cards(h[cs[x]], h[cs[y]])]]

\* merge_decks(deck1, deck2) for the decks named x and y: the deque of the new
\* deck and the heap holding it
merge_decks(h, cs, x, y) ==
    LET r == NewRef
        q0 == new_deck(FALSE)               \* create_empty_deck()
        q1 == add_cards(q0, h[cs[x]])       \* new_deck.add_cards(list(deck1))
        q2 == add_cards(q1, h[cs[y]])       \* new_deck.add_cards(list(deck2))
    IN  [ref |-> r, heap |-> [h EXCEPT ![r] = q2]]

\* bool(initial_card) in "if initial_card:": None is false; a Card, an object
\* with a colour, a label and three predicates, is true
truthy(initial_card) == initial_card # None

\* a discard pile that is never seeded
create_discard_pile_unseeded(initial_card) == new_deck(FALSE)

create_discard_pile(initial_card) ==
    LET discard_pile == new_deck(FALSE)                 \* create_empty_deck()
    IN  IF truthy(initial_card) THEN add_card(discard_pile, initial_card)
        ELSE discard_pile

(***************************************************************************)
(* DeckBuilder: a flag and the list of the cards queued so far.            *)
(***************************************************************************)
\* DeckBuilder.__init__: the fields of a builder whose new list is object r
new_builder(r) == [include_standard_cards |-> TRUE, custom_cards |-> r]

exclude_standard_cards(b) == [b EXCEPT !.include_standard_cards = FALSE]

\* self._custom_cards.append(card), self._custom_cards.extend(cards)
add_custom_card(xs, card) == Append(xs, card)
add_custom_cards(xs, more) == xs \o more

\* a build that puts the queued cards before the standard ones
build_custom_first(h, b) ==
    [ref |-> NewRef,
     heap |-> [h EXCEPT ![NewRef] =
                 add_cards(h[b.custom_cards], new_deck(b.include_standard_cards))]]

\* a build whose deck, when no standard card is wanted, keeps its cards in
\* the builder's own list
build_sharing(h, b) ==
    IF b.include_standard_cards
    THEN [ref |-> NewRef,
          heap |-> [h EXCEPT ![NewRef] = add_cards(new_deck(TRUE), h[b.custom_cards])]]
    ELSE [ref |-> b.custom_cards, heap |-> h]

\* build() on a builder with the fields b: the deque of the new deck and the
\* heap holding it
build(h, b) ==
    LET r == NewRef
        deck == new_deck(b.include_standard_cards)
    IN  [ref |-> r,
         heap |-> [h EXCEPT ![r] =
                     IF h[b.custom_cards] # <<>>         \* if self._custom_cards:
                     THEN add_cards(deck, h[b.custom_cards])
                     ELSE deck]]

(***************************************************************************)
(* The record of a call.                                                   *)
(***************************************************************************)
NoDecks == [d \in DeckIds |-> <<>>]
NoQueues == [b \in {} |-> <<>>]

Record(op, d, pre) ==
    [op |-> op, deck |-> d, src |-> <<>>, count |-> 0, arg |-> <<>>,
     card |-> None, flag |-> FALSE, ret |-> <<>>, item |-> None, err |-> "ok",
     dist |-> NoDist, pre |-> pre, queue |-> NoQueues, held |-> <<>>]

\* the cards builder b has queued
Queue(b) == heap[builders[b].custom_cards]

\* a call made now: the decks and the builders' queues as the call finds them
Call(op, d) ==
    [Record(op, d, Snapshot) EXCEPT
         !.queue = [b \in DOMAIN builders |-> Queue(b)], !.held = hand.held]

\* the call is recorded as rec says
Logs(rec) ==
    /\ last' = rec
    /\ trace' = IF trace.on THEN [trace EXCEPT !.calls = Append(@, rec)] ELSE trace

\* xs without its first card equal to c
Without(xs, c) ==
    IF \E i \in DOMAIN xs : xs[i] = c
    THEN LET i == CHOOSE i \in DOMAIN xs : xs[i] = c /\ \A j \in 1..(i - 1) : xs[j] # c
         IN  SubSeq(xs, 1, i - 1) \o SubSeq(xs, i + 1, Len(xs))
    ELSE xs

RECURSIVE WithoutAll(_, _)
WithoutAll(xs, cs) ==
    IF cs = <<>> THEN xs ELSE WithoutAll(Without(xs, Head(cs)), Tail(cs))

\* the hand of a client that puts there every card a draw returns and takes
\* from there every card it adds to a deck, once the call rec is over
HandAfter(rec) ==
    IF ~hand.on THEN hand
    ELSE IF rec.op = "draw" THEN [hand EXCEPT !.held = @ \o rec.ret]
    ELSE IF rec.op = "draw_one" /\ rec.item # None
         THEN [hand EXCEPT !.held = Append(@, rec.item)]
    ELSE IF rec.op \in {"add_card", "add_to_top"}
         THEN [hand EXCEPT !.held = Without(@, rec.card)]
    ELSE IF rec.op \in {"add_cards", "add_cards_to_top"}
         THEN [hand EXCEPT !.held = WithoutAll(@, rec.arg)]
    ELSE hand

\* the call returns (or raises) as rec says; it assigns no field of a builder
Returns(rec) == Logs(rec) /\ hand' = HandAfter(rec) /\ UNCHANGED builders

NoHand == [on |-> FALSE, held |-> <<>>]

\* no DeckBuilder was made
NoBuilders == [b \in {} |-> FALSE]

\* the deque of deck d now holds q
Store(d, q) == heap' = [heap EXCEPT ![cards[d]] = q]

\* the name d is bound to a new Deck whose new deque r holds q
Bind(d, r, q) ==
    /\ cards' = (d :> r) @@ cards
    /\ heap' = Collect([heap EXCEPT ![r] = q], (d :> r) @@ cards)

(***************************************************************************)
(* The calls, one action each.                                             *)
(***************************************************************************)
\* d = Deck(initialize)
NewDeck(d, initialize) ==
    /\ Bind(d, NewRef, new_deck(initialize))
    /\ Returns([Call("__init__", d) EXCEPT !.flag = initialize])

Draw(d, count) ==
    LET r == draw(Contents(d), count)
    IN  /\ Store(d, r.q)
        /\ Returns([Call("draw", d) EXCEPT
                        !.count = count, !.ret = r.ret, !.err = r.err])
        /\ UNCHANGED cards

DrawOne(d) ==
    LET r == draw_one(Contents(d))
    IN  /\ Store(d, r.q)
        /\ Returns([Call("draw_one", d) EXCEPT !.item = r.item, !.err = r.err])
        /\ UNCHANGED cards

AddCard(d, card) ==
    /\ Store(d, add_card(Contents(d), card))
    /\ Returns([Call("add_card", d) EXCEPT !.card = card])
    /\ UNCHANGED cards

AddCards(d, xs) ==
    /\ Store(d, add_cards(Contents(d), xs))
    /\ Returns([Call("add_cards", d) EXCEPT !.arg = xs])
    /\ UNCHANGED cards

AddToTop(d, card) ==
    /\ Store(d, add_to_top(Contents(d), card))
    /\ Returns([Call("add_to_top", d) EXCEPT !.card = card])
    /\ UNCHANGED cards

AddCardsToTop(d, xs) ==
    /\ Store(d, add_cards_to_top(Contents(d), xs))
    /\ Returns([Call("add_cards_to_top", d) EXCEPT !.arg = xs])
    /\ UNCHANGED cards

Peek(d, count) ==
    LET r == peek(Contents(d), count)
    IN  /\ Store(d, r.q)
        /\ Returns([Call("peek", d) EXCEPT
                        !.count = count, !.ret = r.ret, !.err = r.err])
        /\ UNCHANGED cards

Clear(d) ==
    /\ Store(d, clear(Contents(d)))
    /\ Returns(Call("clear", d))
    /\ UNCHANGED cards

\* d = create_discard_pile(initial_card)
CreateDiscardPile(d, initial_card) ==
    /\ Bind(d, NewRef, create_discard_pile(initial_card))
    /\ Returns([Call("create_discard_pile", d) EXCEPT !.card = initial_card])

\* len(self._cards) returned to the caller
Size(d) ==
    /\ Returns([Call("size", d) EXCEPT !.count = size(Contents(d))])
    /\ UNCHANGED <<cards, heap>>

Rotate(d, positions) ==
    /\ Store(d, rotate(Contents(d), positions))
    /\ Returns([Call("rotate", d) EXCEPT !.count = positions])
    /\ UNCHANGED cards

\* cards_list = list(self._cards); random.shuffle(cards_list);
\* self._cards = deque(cards_list)
Shuffle(d) ==
    \E cards_list \in random_shuffle(Contents(d)) :
        /\ Bind(d, NewRef, cards_list)
        /\ Returns(Call("shuffle", d))

Distribution(d) ==
    /\ Returns([Call("get_card_distribution", d) EXCEPT
                    !.dist = get_card_distribution(Contents(d))])
    /\ UNCHANGED <<cards, heap>>

\* m = merge_decks(x, y)
MergeDecks(x, y) ==
    LET r == merge_decks(heap, cards, x, y)
    IN  /\ cards' = ("m" :> r.ref) @@ cards
        /\ heap' = Collect(r.heap, ("m" :> r.ref) @@ cards)
        /\ Returns([Call("merge_decks", "m") EXCEPT !.src = <<x, y>>])

ExcludeStandardCards(b) ==
    /\ builders' = [builders EXCEPT ![b] = exclude_standard_cards(@)]
    /\ Logs(Call("exclude_standard_cards", b))
    /\ UNCHANGED <<cards, heap, hand>>

AddCustomCard(b, card) ==
    /\ heap' = [heap EXCEPT ![builders[b].custom_cards] = add_custom_card(@, card)]
    /\ Returns([Call("add_custom_card", b) EXCEPT !.card = card])
    /\ UNCHANGED cards

AddCustomCards(b, xs) ==
    /\ heap' = [heap EXCEPT ![builders[b].custom_cards] = add_custom_cards(@, xs)]
    /\ Returns([Call("add_custom_cards", b) EXCEPT !.arg = xs])
    /\ UNCHANGED cards

\* d = b.build()
Build(b, d) ==
    LET r == build(heap, builders[b])
    IN  /\ cards' = (d :> r.ref) @@ cards
        /\ heap' = Collect(r.heap, (d :> r.ref) @@ cards)
        /\ Returns([Call("build", d) EXCEPT
                        !.flag = builders[b].include_standard_cards])

(***************************************************************************)
(* Spec: one deck, created empty, under every call of its interface.       *)
(***************************************************************************)
Counts == -1..(MaxLen + 1)

\* the arguments of rotate: either way, up to past the deck size and back
Rotations == (0 - MaxLen - 2)..(MaxLen + 2)

Room(d) == MaxLen - Len(Contents(d))

Init ==
    /\ cards = ("a" :> 1)
    /\ heap = [r \in Refs |-> new_deck(FALSE)]
    /\ last = Record("create_empty_deck", "a", NoDecks)
    /\ trace = [on |-> FALSE, calls |-> <<>>]
    /\ builders = NoBuilders
    /\ hand = NoHand

Next ==
    \/ \E count \in Counts : Draw("a", count)
    \/ DrawOne("a")
    \/ \E card \in Pool : Room("a") >= 1 /\ AddCard("a", card)
    \/ \E xs \in Lists(MaxArg) : Room("a") >= Len(xs) /\ AddCards("a", xs)
    \/ \E card \in Pool : Room("a") >= 1 /\ AddToTop("a", card)
    \/ \E xs \in Lists(MaxArg) : Room("a") >= Len(xs) /\ AddCardsToTop("a", xs)
    \/ \E count \in Counts : Peek("a", count)
    \/ Clear("a")
    \/ \E positions \in Rotations : Rotate("a", positions)
    \/ Shuffle("a")
    \/ Distribution("a")

Spec == Init /\ [][Next]_vars

(***************************************************************************)
(* Properties of Spec.                                                     *)
(***************************************************************************)
\* the deck the last call was made on, before the call
Before == last.pre[last.deck]
\* the deck the last call was made on, now
Now == Contents(last.deck)

\* C1: draw(count) with 0 <= count <= n succeeds, returns exactly the count
\* cards that were on top, former top first, leaves the other n - count
\* cards in their order, and draw(0) returns [] and changes nothing.
C1_DrawTakesTop ==
    (last.op = "draw" /\ 0 <= last.count /\ last.count <= Len(Before)) =>
        /\ last.err = "ok"
        /\ Len(last.ret) = last.count
        /\ \A i \in 1..last.count : last.ret[i] = Before[i]
        /\ size(Now) = Len(Before) - last.count
        /\ \A i \in 1..(Len(Before) - last.count) : Now[i] = Before[last.count + i]
        /\ (last.count = 0 => last.ret = <<>> /\ Now = Before)

\* a draw of two cards from three different cards
C1_Witness ==
    /\ last.op = "draw" /\ last.count = 2 /\ last.err = "ok"
    /\ Len(Before) = 3 /\ Cardinality({Before[i] : i \in 1..3}) = 3

\* C2: draw(count) with count < 0 or count > n raises ValueError and leaves
\* the deck as it was: no card is removed before the failure.
C2_DrawOutOfRange ==
    (last.op = "draw" /\ (last.count < 0 \/ last.count > Len(Before))) =>
        /\ last.err = "ValueError"
        /\ last.ret = <<>>
        /\ Now = Before

\* a draw of one card more than a deck of two holds
C2_Witness ==
    /\ last.op = "draw" /\ last.count = 3 /\ Len(Before) = 2
    /\ last.err = "ValueError"

\* C3: draw_one on an empty deck returns None without raising and leaves the
\* deck empty; on a deck with cards it returns the former top card and
\* leaves the rest in order, one card fewer.
C3_DrawOne ==
    last.op = "draw_one" =>
        /\ last.err = "ok"
        /\ Len(Before) = 0 => (last.item = None /\ Now = <<>>)
        /\ Len(Before) > 0 =>
               /\ last.item = Before[1]
               /\ size(Now) = Len(Before) - 1
               /\ \A i \in 1..(Len(Before) - 1) : Now[i] = Before[i + 1]

\* a draw_one on an empty deck
C3_Witness == last.op = "draw_one" /\ Before = <<>> /\ last.item = None

\* how often card c occurs in q
Occurrences(q, c) == Cardinality({i \in DOMAIN q : q[i] = c})

\* C6: peek(count) never changes the deck; for 0 <= count <= n it returns
\* the top count cards, top first; for count < 0 or count > n it fails with
\* the failure draw raises for that count.
C6_PeekReadsTop ==
    last.op = "peek" =>
        /\ Now = Before
        /\ size(Now) = Len(Before)
        /\ (0 <= last.count /\ last.count <= Len(Before)) =>
               /\ last.err = "ok"
               /\ Len(last.ret) = last.count
               /\ \A i \in 1..last.count : last.ret[i] = Before[i]
        /\ (last.count < 0 \/ last.count > Len(Before)) =>
               /\ last.err = "ValueError"
               /\ last.err = draw(Before, last.count).err

\* a peek at two of three different cards
C6_Witness ==
    /\ last.op = "peek" /\ last.count = 2 /\ last.err = "ok"
    /\ Len(Before) = 3 /\ Cardinality({Before[i] : i \in 1..3}) = 3

\* C7: after shuffle() the deck holds the same cards, each as often as
\* before, and size() is what it was, whatever order was chosen.
C7_ShuffleKeepsCards ==
    last.op = "shuffle" =>
        /\ size(Now) = Len(Before)
        /\ \A c \in Pool : Occurrences(Now, c) = Occurrences(Before, c)

\* a shuffle that changed the order of a deck holding one card twice
C7_Witness ==
    /\ last.op = "shuffle" /\ Len(Before) = 3 /\ Now # Before
    /\ Cardinality({Before[i] : i \in 1..3}) = 2

(***************************************************************************)
(* Clients that make a fixed sequence of calls on one deck and keep every  *)
(* call.  The deck starts as create_empty_deck() followed by add_cards(xs).*)
(***************************************************************************)
InitClient ==
    \E xs \in Lists(MaxLen) :
        /\ cards = ("a" :> 1)
        /\ heap = [r \in Refs |->
                     IF r = 1 THEN add_cards(new_deck(FALSE), xs) ELSE <<>>]
        /\ last = [Record("add_cards", "a", NoDecks) EXCEPT !.arg = xs]
        /\ trace = [on |-> TRUE, calls |-> <<>>]
        /\ builders = NoBuilders
        /\ hand = NoHand

\* the number of calls the client has made
Made == Len(trace.calls)

\* add_cards_to_top(xs), then draw(len(xs))
NextAddTopDraw ==
    \/ \E xs \in Lists(MaxArg) : Made = 0 /\ AddCardsToTop("a", xs)
    \/ Made = 1 /\ Draw("a", Len(trace.calls[1].arg))

SpecAddTopDraw == InitClient /\ [][NextAddTopDraw]_vars

NextPeekDrawAdd ==
    \/ \E count \in Counts : Made = 0 /\ Peek("a", count)
    \/ Made = 1 /\ Draw("a", trace.calls[1].count)
    \/ Made = 2 /\ trace.calls[2].err = "ok"
           /\ AddCardsToTop("a", trace.calls[2].ret)

SpecPeekDrawAdd == InitClient /\ [][NextPeekDrawAdd]_vars

\* C5: for 0 <= count <= n, peek(count) returns the list the draw(count)
\* right after it returns, and add_cards_to_top of the drawn list brings the
\* deck back to its contents and order before the peek.
C5_PeekDrawAddRoundTrip ==
    LET original == trace.calls[1].pre["a"]
    IN  (Made >= 2 /\ 0 <= trace.calls[1].count
                   /\ trace.calls[1].count <= Len(original)) =>
            /\ trace.calls[1].err = "ok" /\ trace.calls[2].err = "ok"
            /\ trace.calls[1].ret = trace.calls[2].ret
            /\ Len(trace.calls[2].ret) = trace.calls[1].count
            /\ Made = 3 => Contents("a") = original

\* two of three different cards peeked at, drawn and put back
C5_Witness ==
    /\ Made = 3
    /\ trace.calls[1].op = "peek" /\ trace.calls[1].count = 2
    /\ trace.calls[2].op = "draw" /\ trace.calls[3].op = "add_cards_to_top"
    /\ Len(trace.calls[1].pre["a"]) = 3
    /\ Cardinality({trace.calls[1].pre["a"][i] : i \in 1..3}) = 3

(***************************************************************************)
(* SpecMerge: a client that fills two decks a and b, merges two of them    *)
(* into m and then makes one more call on m.                               *)
(***************************************************************************)
Parts == {"a", "b"}

InitMerge ==
    \E xs, ys \in Lists(MaxPart) :
        /\ cards = ("a" :> 1) @@ ("b" :> 2)
        /\ heap = [r \in Refs |->
                     IF r = 1 THEN add_cards(new_deck(FALSE), xs)
                     ELSE IF r = 2 THEN add_cards(new_deck(FALSE), ys)
                     ELSE <<>>]
        /\ last = [Record("add_cards", "b", NoDecks) EXCEPT !.arg = ys]
        /\ trace = [on |-> TRUE, calls |-> <<>>]
        /\ builders = NoBuilders
        /\ hand = NoHand

NextMerge ==
    \/ \E x, y \in Parts : Made = 0 /\ MergeDecks(x, y)
    \/ Made = 1 /\ Draw("m", size(Contents(trace.calls[1].src[1])))
    \/ Made = 1 /\ DrawOne("m")
    \/ \E card \in Pool : Made = 1 /\ AddCard("m", card)
    \/ \E card \in Pool : Made = 1 /\ AddToTop("m", card)
    \/ Made = 1 /\ Clear("m")

SpecMerge == InitMerge /\ [][NextMerge]_vars

\* C8: merge_decks(a, b) returns a new deck of size a.size() + b.size()
\* holding a's cards in order, then b's cards in order, so that drawing
\* a.size() cards from it gives a's contents; a and b are as before the
\* call, and later changes of the result leave a and b as they are.
C8_MergeAppendsAndCopies ==
    Made >= 1 =>
        LET A == trace.calls[1].pre[trace.calls[1].src[1]]
            B == trace.calls[1].pre[trace.calls[1].src[2]]
            merged == Contents("m")
        IN  /\ \A d \in Parts : Contents(d) = trace.calls[1].pre[d]
            /\ \A d \in Parts : cards["m"] # cards[d]
            /\ Made = 1 =>
                   /\ size(merged) = Len(A) + Len(B)
                   /\ \A i \in 1..Len(A) : merged[i] = A[i]
                   /\ \A i \in 1..Len(B) : merged[Len(A) + i] = B[i]
            /\ (Made = 2 /\ trace.calls[2].op = "draw") =>
                   /\ trace.calls[2].err = "ok"
                   /\ trace.calls[2].ret = A
                   /\ merged = B

\* two decks of two cards each, with different contents, merged, and the
\* result changed
C8_Witness ==
    /\ Made = 2 /\ trace.calls[2].op = "add_to_top"
    /\ trace.calls[1].op = "merge_decks" /\ trace.calls[1].src = <<"a", "b">>
    /\ Len(Contents("a")) = 2 /\ Len(Contents("b")) = 2
    /\ Contents("a") # Contents("b")
    /\ Contents("a")[1] # Contents("a")[2]

(***************************************************************************)
(* SpecStd: one deck constructed by Deck(initialize), drawn from, peeked   *)
(* at, counted, cleared and constructed anew.                              *)
(***************************************************************************)
InitStd ==
    \E initialize \in BOOLEAN :
        /\ cards = ("a" :> 1)
        /\ heap = [r \in Refs |-> IF r = 1 THEN new_deck(initialize) ELSE <<>>]
        /\ last = [Record("__init__", "a", NoDecks) EXCEPT !.flag = initialize]
        /\ trace = [on |-> FALSE, calls |-> <<>>]
        /\ builders = NoBuilders
        /\ hand = NoHand

NextStd ==
    \/ \E initialize \in BOOLEAN : NewDeck("a", initialize)
    \/ \E count \in Counts : Draw("a", count)
    \/ DrawOne("a")
    \/ \E count \in Counts : Peek("a", count)
    \/ Distribution("a")
    \/ Clear("a")

SpecStd == InitStd /\ [][NextStd]_vars

\* the deck was constructed with the standard composition and not touched since
Fresh == last.op = "__init__" /\ last.flag

\* C9: a freshly constructed standard deck has size() 108 and a distribution
\* of total 108 with 76 number cards, 24 action cards and 8 wild cards.
C9_StandardDeck ==
    Fresh =>
        LET dist == get_card_distribution(Contents("a"))
        IN  /\ size(Contents("a")) = 108
            /\ dist.total = 108
            /\ dist.number_cards = 76
            /\ dist.action_cards = 24
            /\ dist.wild_cards = 8

\* a standard deck constructed in place of a deck that had been drawn from
C9_Witness == Fresh /\ Len(last.pre["a"]) = 100 /\ ~is_empty(Contents("a"))

StandardColors == {_COLORS[i] : i \in DOMAIN _COLORS}

\* C10 as claimed: a freshly constructed standard deck counts 27 cards for
\* each of the four standard colours.
C10_Claimed27PerColor ==
    Fresh =>
        \A color \in StandardColors :
            get_card_distribution(Contents("a")).by_color[color] = 27

\* C10, amended: a freshly constructed standard deck counts 25 cards for each
\* of the four standard colours (19 number cards and 6 action cards); the 8
\* wild cards are counted under the wild colour and in none of the four.
C10_25PerColor ==
    Fresh =>
        LET dist == get_card_distribution(Contents("a"))
        IN  /\ \A color \in StandardColors : dist.by_color[color] = 25
            /\ dist.by_color[WildColor] = 8
            /\ dist.by_color[WildColor] = dist.wild_cards
            /\ Cardinality(StandardColors) = 4

\* a fresh standard deck whose wild cards carry none of the four colours
C10_Witness ==
    /\ Fresh /\ Len(last.pre["a"]) = 0
    /\ \E i \in DOMAIN Contents("a") :
           is_wild(Contents("a")[i]) /\ Contents("a")[i].color \notin StandardColors

(***************************************************************************)
(* SpecRotate: a client that rotates a deck and rotates it back.           *)
(***************************************************************************)
NextRotate ==
    \/ \E k \in Rotations : Made = 0 /\ Rotate("a", k)
    \/ Made = 1 /\ Rotate("a", 0 - trace.calls[1].count)

SpecRotate == InitClient /\ [][NextRotate]_vars

\* C11: for every deck, the empty one included, and every integer k, of
\* either sign and beyond the deck size, rotate(k) followed by rotate(-k)
\* brings back the original top-to-bottom order.
C11_RotateThereAndBack ==
    Made = 2 =>
        /\ trace.calls[2].count = 0 - trace.calls[1].count
        /\ trace.calls[1].err = "ok" /\ trace.calls[2].err = "ok"
        /\ Contents("a") = trace.calls[1].pre["a"]

\* three different cards rotated by more than three, out of order in
\* between, and rotated back
C11_Witness ==
    /\ Made = 2
    /\ trace.calls[1].count = 0 - 4
    /\ Len(trace.calls[1].pre["a"]) = 3
    /\ Cardinality({trace.calls[1].pre["a"][i] : i \in 1..3}) = 3
    /\ trace.calls[2].pre["a"] # trace.calls[1].pre["a"]

(***************************************************************************)
(* A client that makes a builder, configures it with a few calls, and      *)
(* builds a deck.                                                          *)
(***************************************************************************)
NoCards == [d \in {} |-> NumRefs]

InitBuild ==
    /\ cards = NoCards
    /\ heap = [r \in Refs |-> <<>>]
    /\ builders = ("builder" :> new_builder(1))
    /\ last = Record("DeckBuilder", "builder", NoDecks)
    /\ trace = [on |-> TRUE, calls |-> <<>>]
    /\ hand = NoHand

\* no deck was built yet and the client has calls left
Configuring == cards = NoCards /\ Made < MaxPart

NextBuild ==
    \/ Configuring /\ ExcludeStandardCards("builder")
    \/ \E card \in Pool :
           /\ Configuring /\ Len(Queue("builder")) < MaxLen
           /\ AddCustomCard("builder", card)
    \/ \E xs \in Lists(MaxArg) :
           /\ Configuring /\ Len(Queue("builder")) + Len(xs) <= MaxLen
           /\ AddCustomCards("builder", xs)
    \/ cards = NoCards /\ Build("builder", "a")

SpecBuild == InitBuild /\ [][NextBuild]_vars

\* the cards the calls cs queued, in the order of the calls
RECURSIVE Queued(_)
Queued(cs) ==
    IF cs = <<>> THEN <<>>
    ELSE LET c == cs[Len(cs)]
             rest == Queued(SubSeq(cs, 1, Len(cs) - 1))
         IN  IF c.op = "add_custom_card" THEN rest \o <<c.card>>
             ELSE IF c.op = "add_custom_cards" THEN rest \o c.arg
             ELSE rest

\* one of the calls cs was exclude_standard_cards
Excluded(cs) == \E i \in DOMAIN cs : cs[i].op = "exclude_standard_cards"

\* C12: build() returns a deck holding the standard 108 cards, or none of
\* them once exclude_standard_cards was called, followed by every card
\* queued by add_custom_card and add_custom_cards, in the order queued
\* across all the calls.
C12_BuildContents ==
    last.op = "build" =>
        LET std == IF Excluded(trace.calls) THEN <<>> ELSE initialize_standard_deck
            custom == Queued(trace.calls)
        IN  /\ last.err = "ok"
            /\ Len(initialize_standard_deck) = 108
            /\ size(Contents("a")) = Len(std) + Len(custom)
            /\ SubSeq(Contents("a"), 1, Len(std)) = std
            /\ SubSeq(Contents("a"), Len(std) + 1, Len(std) + Len(custom)) = custom

\* a standard build after add_custom_cards of two cards and add_custom_card
\* of a third, all different
C12_Witness ==
    /\ last.op = "build" /\ Made = 3 /\ ~Excluded(trace.calls)
    /\ trace.calls[1].op = "add_custom_cards" /\ Len(trace.calls[1].arg) = 2
    /\ trace.calls[2].op = "add_custom_card"
    /\ Cardinality({Contents("a")[i] : i \in 109..111}) = 3
    /\ size(Contents("a")) = 111

(***************************************************************************)
(* A client that builds two decks from one builder, with one call on the   *)
(* builder or on the first deck in between and one call on the builder or  *)
(* on either deck after.  The builder starts as DeckBuilder(), with or     *)
(* without exclude_standard_cards(), followed by add_custom_cards(xs).     *)
(***************************************************************************)
InitBuilt ==
    \E include \in BOOLEAN, xs \in Lists(MaxPart) :
        /\ cards = NoCards
        /\ heap = [r \in Refs |-> IF r = 1 THEN add_custom_cards(<<>>, xs) ELSE <<>>]
        /\ builders = ("builder" :>
               IF include THEN new_builder(1)
               ELSE exclude_standard_cards(new_builder(1)))
        /\ last = [Record("add_custom_cards", "builder", NoDecks) EXCEPT !.arg = xs]
        /\ trace = [on |-> FALSE, calls |-> <<>>]
        /\ hand = NoHand

\* the decks the client may call now: those built, right after a build
Built == IF last.op = "build" THEN DOMAIN cards ELSE {}

NextBuilt ==
    \/ cards = NoCards /\ Build("builder", "a")
    \/ DOMAIN cards = {"a"} /\ Build("builder", "b")
    \/ Built # {} /\ ExcludeStandardCards("builder")
    \/ \E card \in Pool : Built # {} /\ AddCustomCard("builder", card)
    \/ \E d \in Built : DrawOne(d)
    \/ \E d \in Built, card \in Pool : AddCard(d, card)
    \/ \E d \in Built : Clear(d)
    \/ \E d \in Built : Len(Contents(d)) <= MaxLen /\ Shuffle(d)

SpecBuilt == InitBuilt /\ [][NextBuilt]_vars

BuilderCalls ==
    {"exclude_standard_cards", "add_custom_card", "add_custom_cards", "build"}
DeckCalls == {"draw_one", "add_card", "clear", "shuffle"}

\* C13: every build() makes a new deck of its own.  A later call on the
\* builder, a later build included, changes no deck built before; a draw,
\* add, shuffle or clear on a built deck changes neither the cards the
\* builder has queued nor another deck built from the same builder.
C13_BuiltDecksIndependent ==
    /\ \A d, e \in DOMAIN cards : d # e => cards[d] # cards[e]
    /\ \A d \in DOMAIN cards : cards[d] \notin Queues
    /\ last.op \in BuilderCalls =>
           \A d \in DOMAIN cards \ {last.deck} : Contents(d) = last.pre[d]
    /\ last.op \in DeckCalls =>
           /\ Queue("builder") = last.queue["builder"]
           /\ \A d \in DOMAIN cards \ {last.deck} : Contents(d) = last.pre[d]

\* two custom cards queued, deck a built, a third card queued, deck b built,
\* then deck a cleared: deck b and the queue still hold the three cards
C13_Witness ==
    /\ last.op = "clear" /\ last.deck = "a" /\ Len(last.pre["a"]) = 2
    /\ DOMAIN cards = {"a", "b"}
    /\ Contents("a") = <<>>
    /\ Len(Contents("b")) = 3 /\ Contents("b") = Queue("builder")

(***************************************************************************)
(* A client that moves cards between two decks and its hand: what it draws *)
(* goes to the hand, what it adds comes from the hand.  Deck a starts with *)
(* the cards the client held, deck b empty.                                *)
(***************************************************************************)
InitMove ==
    \E xs \in Lists(MaxPart) :
        /\ cards = ("a" :> 1) @@ ("b" :> 2)
        /\ heap = [r \in Refs |->
                     IF r = 1 THEN add_cards(new_deck(FALSE), xs) ELSE new_deck(FALSE)]
        /\ last = [Record("add_cards", "a", NoDecks) EXCEPT !.arg = xs, !.held = xs]
        /\ trace = [on |-> FALSE, calls |-> <<>>]
        /\ builders = NoBuilders
        /\ hand = [on |-> TRUE, held |-> <<>>]

\* the cards in the hand
Held == {hand.held[i] : i \in DOMAIN hand.held}

\* the first k cards of the hand
Top(k) == SubSeq(hand.held, 1, k)

\* the arguments of draw and peek: up to past the cards there are
MoveCounts == -1..(MaxPart + 1)
\* the arguments of rotate: one place either way
MoveRotations == {-1, 1}

NextMove ==
    \/ \E d \in Parts, count \in MoveCounts : Draw(d, count)
    \/ \E d \in Parts : DrawOne(d)
    \/ \E d \in Parts, card \in Held : AddCard(d, card)
    \/ \E d \in Parts, card \in Held : AddToTop(d, card)
    \/ \E d \in Parts, k \in 0..Len(hand.held) : AddCards(d, Top(k))
    \/ \E d \in Parts, k \in 0..Len(hand.held) : AddCardsToTop(d, Top(k))
    \/ \E d \in Parts, count \in MoveCounts : Peek(d, count)
    \/ \E d \in Parts, positions \in MoveRotations : Rotate(d, positions)
    \/ \E d \in Parts : Shuffle(d)

SpecMove == InitMove /\ [][NextMove]_vars

\* how often card c occurs in the decks and the hand, now and before the call
Everywhere(c) ==
    Occurrences(Contents("a"), c) + Occurrences(Contents("b"), c)
        + Occurrences(hand.held, c)
EverywhereBefore(c) ==
    Occurrences(last.pre["a"], c) + Occurrences(last.pre["b"], c)
        + Occurrences(last.held, c)

\* C14: size() is the length of the deck's sequence; a successful draw or
\* draw_one removes from the deck exactly the cards it returns; add_card,
\* add_cards, add_to_top and add_cards_to_top add exactly the cards given;
\* shuffle, rotate and peek add and remove none; so while cards are only
\* moved between decks and hand, every card is found as often as before.
C14_CardsConserved ==
    /\ \A d \in Parts : size(Contents(d)) = Len(Contents(d))
    /\ \A c \in Pool :
           /\ last.op = "draw" =>
                  Occurrences(Before, c) = Occurrences(Now, c) + Occurrences(last.ret, c)
           /\ last.op = "draw_one" =>
                  Occurrences(Before, c) =
                      Occurrences(Now, c) + (IF last.item = c THEN 1 ELSE 0)
           /\ last.op \in {"add_card", "add_to_top"} =>
                  Occurrences(Now, c) =
                      Occurrences(Before, c) + (IF last.card = c THEN 1 ELSE 0)
           /\ last.op \in {"add_cards", "add_cards_to_top"} =>
                  Occurrences(Now, c) = Occurrences(Before, c) + Occurrences(last.arg, c)
           /\ last.op \in {"shuffle", "rotate", "peek"} =>
                  Occurrences(Now, c) = Occurrences(Before, c)
           /\ Everywhere(c) = EverywhereBefore(c)
    /\ last.op = "draw" => size(Now) = Len(Before) - Len(last.ret)
    /\ last.op \in {"add_cards", "add_cards_to_top"} =>
           size(Now) = Len(Before) + Len(last.arg)
    /\ \A d \in Parts \ {last.deck} : Contents(d) = last.pre[d]

\* two different cards drawn from deck a, one of them then added to deck b
\* and the other still in the hand
C14_Witness ==
    /\ last.op = "add_card" /\ last.deck = "b" /\ Len(last.held) = 2
    /\ Contents("a") = <<>> /\ Len(Contents("b")) = 1 /\ Len(hand.held) = 1
    /\ Contents("b")[1] # hand.held[1]

(***************************************************************************)
(* The order add_cards_to_top leaves the cards in, as its docstring has it.*)
(***************************************************************************)
\* C15: after add_cards_to_top(cards) the added cards are drawn in the
\* reverse order of the input list: the last element of the list is drawn
\* first.
C15_DrawnInReverseOrder ==
    (Made = 2 /\ trace.calls[1].op = "add_cards_to_top") =>
        /\ trace.calls[2].err = "ok"
        /\ trace.calls[2].ret = reversed(trace.calls[1].arg)

(***************************************************************************)
(* Properties of rotate in Spec.                                           *)
(***************************************************************************)
\* C16: rotate(positions) fails for no integer and no deck, the empty deck
\* included; it keeps the size and every card as often as before; on a deck
\* of n > 0 cards it acts as rotate(positions mod n), so that turning by 0
\* or by n changes nothing; a positive amount moves cards from the bottom
\* to the top, and rotate(1) makes the former bottom card the top card with
\* the other cards in their order below it.
C16_RotateCyclic ==
    last.op = "rotate" =>
        LET n == Len(Before)
            k == last.count
        IN  /\ last.err = "ok"
            /\ size(Now) = n
            /\ \A c \in Pool : Occurrences(Now, c) = Occurrences(Before, c)
            /\ n = 0 => Now = <<>>
            /\ n > 0 =>
                   /\ Now = rotate(Before, k % n)
                   /\ k % n = 0 => Now = Before
                   /\ \A i \in 1..n : Now[i] = Before[((i - 1 - k) % n) + 1]
            /\ (n > 0 /\ k = 1) =>
                   /\ Now[1] = Before[n]
                   /\ \A i \in 2..n : Now[i] = Before[i - 1]

\* a deck of three different cards turned by four places, one more than it
\* holds: the bottom card came to the top
C16_Witness ==
    /\ last.op = "rotate" /\ last.count = 4
    /\ Len(Before) = 3 /\ Cardinality({Before[i] : i \in 1..3}) = 3
    /\ Now = <<Before[3], Before[1], Before[2]>>

(***************************************************************************)
(* A client that fills an empty deck and draws from it: add_cards(xs),     *)
(* draw(1), size(), add_to_top(card), draw(2), add_card(card), and a draw  *)
(* of all the cards left.                                                  *)
(***************************************************************************)
\* four cards a scenario can tell apart
ScenarioPool == Pool \cup {create_number_card("GREEN", 0)}
ScenarioLists == UNION {[1..k -> ScenarioPool] : k \in 0..MaxLen}

InitScenario ==
    /\ cards = ("a" :> 1)
    /\ heap = [r \in Refs |-> new_deck(FALSE)]
    /\ last = Record("create_empty_deck", "a", NoDecks)
    /\ trace = [on |-> TRUE, calls |-> <<>>]
    /\ builders = NoBuilders
    /\ hand = NoHand

NextScenario ==
    \/ \E xs \in ScenarioLists : Made = 0 /\ AddCards("a", xs)
    \/ Made = 1 /\ Draw("a", 1)
    \/ Made = 2 /\ Size("a")
    \/ \E card \in ScenarioPool : Made = 3 /\ AddToTop("a", card)
    \/ Made = 4 /\ Draw("a", 2)
    \/ \E card \in ScenarioPool : Made = 5 /\ AddCard("a", card)
    \/ Made = 6 /\ Draw("a", size(Contents("a")))

SpecScenario == InitScenario /\ [][NextScenario]_vars

\* C17: cards added with add_card and add_cards go to the bottom and are
\* drawn after every card the deck held, in the order they were added; a
\* card added with add_to_top is the next card drawn, ahead of every card
\* the deck held.  From an empty deck, add_cards([A, B, C]), draw(1) gives
\* [A], size() is 2, add_to_top(D), draw(2) gives [D, B], and C remains.
C17_AddsAndDrawsInOrder ==
    LET call == trace.calls
        xs == call[1].arg
    IN  /\ Made >= 2 /\ Len(xs) >= 1 => call[2].err = "ok" /\ call[2].ret = <<xs[1]>>
        /\ Made >= 3 /\ Len(xs) = 3 => call[3].count = 2
        /\ Made >= 5 /\ call[5].err = "ok" => call[5].ret[1] = call[4].card
        /\ Made >= 5 /\ Len(xs) = 3 =>
               /\ call[5].err = "ok" /\ call[5].ret = <<call[4].card, xs[2]>>
               /\ call[5].pre["a"] = <<call[4].card, xs[2], xs[3]>>
        /\ Made = 5 /\ Len(xs) = 3 => Contents("a") = <<xs[3]>>
        /\ Made >= 6 => call[6].pre["a"] \o <<call[6].card>> =
                            IF Made = 6 THEN Contents("a") ELSE call[7].pre["a"]
        /\ Made = 7 =>
               /\ call[7].err = "ok"
               /\ call[7].ret = call[6].pre["a"] \o <<call[6].card>>
               /\ Contents("a") = <<>>

\* the scenario with four different cards, after draw(2) gave [D, B]
C17_Witness ==
    /\ Made = 5 /\ Len(trace.calls[1].arg) = 3
    /\ Cardinality({trace.calls[1].arg[i] : i \in 1..3} \cup {trace.calls[4].card}) = 4
    /\ trace.calls[5].ret = <<trace.calls[4].card, trace.calls[1].arg[2]>>
    /\ Contents("a") = <<trace.calls[1].arg[3]>>

(***************************************************************************)
(* A client that empties a deck, unless it is empty as created, and then   *)
(* asks it for one card, twice.                                            *)
(***************************************************************************)
\* how many of the calls cs asked an empty deck for one card
RECURSIVE Asked(_)
Asked(cs) ==
    IF cs = <<>> THEN 0
    ELSE Asked(Tail(cs)) +
         (IF Head(cs).pre["a"] = <<>> /\ Head(cs).op \in {"draw", "draw_one"}
          THEN 1 ELSE 0)

NextEmpty ==
    \/ \E count \in 1..MaxLen :
           /\ count <= size(Contents("a")) /\ Asked(trace.calls) = 0
           /\ Draw("a", count)
    \/ ~is_empty(Contents("a")) /\ DrawOne("a")
    \/ Asked(trace.calls) = 0 /\ Made < MaxPart /\ Clear("a")
    \/ is_empty(Contents("a")) /\ Asked(trace.calls) < MaxPart /\ Draw("a", 1)
    \/ is_empty(Contents("a")) /\ Asked(trace.calls) < MaxPart /\ DrawOne("a")

SpecEmpty == InitClient /\ [][NextEmpty]_vars

\* C18: on an empty deck, whether created empty, emptied by draws or
\* cleared, draw(1) raises ValueError and draw_one() returns None without
\* raising, so the two can be told apart, and the deck stays empty.
C18_EmptyDeckAskedForOne ==
    \A i \in 1..Made :
        LET c == trace.calls[i]
            after == IF i = Made THEN Contents("a") ELSE trace.calls[i + 1].pre["a"]
        IN  /\ (c.pre["a"] = <<>> /\ c.op = "draw" /\ c.count = 1) =>
                   c.err = "ValueError" /\ c.ret = <<>> /\ after = <<>>
            /\ (c.pre["a"] = <<>> /\ c.op = "draw_one") =>
                   c.err = "ok" /\ c.item = None /\ after = <<>>
            /\ c.op = "clear" => after = <<>>

\* a deck of three cards emptied by one draw, then asked with draw(1) and
\* with draw_one()
C18_Witness ==
    /\ Made = 3
    /\ trace.calls[1].op = "draw" /\ trace.calls[1].count = 3
    /\ trace.calls[2].op = "draw" /\ trace.calls[2].err = "ValueError"
    /\ trace.calls[3].op = "draw_one" /\ trace.calls[3].item = None
    /\ Contents("a") = <<>>

(***************************************************************************)
(* A client that makes a discard pile, with any card of the standard deck  *)
(* or with none, asks its size and draws from it.                          *)
(***************************************************************************)
StandardCards == {initialize_standard_deck[i] : i \in DOMAIN initialize_standard_deck}

InitDiscard ==
    /\ cards = NoCards
    /\ heap = [r \in Refs |-> <<>>]
    /\ last = Record("import", "a", NoDecks)
    /\ trace = [on |-> TRUE, calls |-> <<>>]
    /\ builders = NoBuilders
    /\ hand = NoHand

NextDiscard ==
    \/ \E initial_card \in StandardCards \cup {None} :
           Made = 0 /\ CreateDiscardPile("a", initial_card)
    \/ Made = 1 /\ Size("a")
    \/ Made \in {1, 2} /\ DrawOne("a")

SpecDiscard == InitDiscard /\ [][NextDiscard]_vars

RECURSIVE SumOver(_, _)
SumOver(f, S) ==
    IF S = {} THEN 0
    ELSE LET x == CHOOSE x \in S : TRUE IN f[x] + SumOver(f, S \ {x})

\* C20: in every reachable deck state the distribution is consistent:
\* total is size(), the counts by colour add up to total, the counts by
\* label add up to total, number_cards + action_cards + wild_cards is at
\* most total and is total when every card is a number, action or wild
\* card; and get_card_distribution leaves the deck as it was.
C20_DistributionConsistent ==
    /\ LET dist == get_card_distribution(Contents("a"))
           q == Contents("a")
       IN  /\ dist.total = size(q)
           /\ SumOver(dist.by_color, DOMAIN dist.by_color) = dist.total
           /\ SumOver(dist.by_label, DOMAIN dist.by_label) = dist.total
           /\ dist.number_cards + dist.action_cards + dist.wild_cards <= dist.total
           /\ (\A i \in DOMAIN q :
                  is_number_card(q[i]) \/ is_action_card(q[i]) \/ is_wild(q[i])) =>
                  dist.number_cards + dist.action_cards + dist.wild_cards = dist.total
    /\ last.op = "get_card_distribution" =>
           /\ last.err = "ok"
           /\ Now = Before
           /\ last.dist = get_card_distribution(Before)
           /\ last.dist.total = size(Now)

\* the distribution of a deck holding a number, an action and a wild card
C20_Witness ==
    /\ last.op = "get_card_distribution"
    /\ last.dist.total = 3
    /\ last.dist.number_cards = 1 /\ last.dist.action_cards = 1
    /\ last.dist.wild_cards = 1
    /\ last.dist.by_color[WildColor] = 1
====
